---- MODULE Spec2Model ----
(***************************************************************************)
(* The Multimodal Storyteller (src/app.py): the session state machine      *)
(* world_forge -> story_start -> story_cycle, the three st.cache_data      *)
(* memoised generation functions that all sessions of the process share,   *)
(* and the handlers that commit chapters to st.session_state.              *)
(*                                                                         *)
(* A Python string is modelled as a sequence of tokens (a word, a blank,   *)
(* a code fence, a JSON document), so that " ".join, str.strip and         *)
(* str.replace are computed and not assumed.                               *)
(***************************************************************************)
EXTENDS Integers, Sequences, FiniteSets, TLC

VARIABLES
    app_stage,          \* st.session_state.app_stage, per session
    world_bible,        \* st.session_state.world_bible, per session
    story_chapters,     \* st.session_state.story_chapters, per session
    latest_choices,     \* st.session_state.latest_choices, per session
    bible_cache,        \* st.cache_data store of generate_world_bible
    chapter_cache,      \* st.cache_data store of generate_story_chapter
    image_cache,        \* st.cache_data store of generate_image_stability
    cached_call,        \* history: the call that filled each chapter_cache entry
    STABILITY_API_KEY,  \* TRUE when the image credential is configured
    ELEVENLABS_API_KEY, \* TRUE when the speech credential is configured
    active,             \* the sessions the process serves
    restart_button,     \* per session: the restart button is on its page
    running,            \* per session: the turn between its two store accesses
    run                 \* the script run of the last user action

vars == <<app_stage, world_bible, story_chapters, latest_choices, bible_cache,
          chapter_cache, image_cache, cached_call, STABILITY_API_KEY,
          ELEVENLABS_API_KEY, active, restart_button, running, run>>

session_state == <<app_stage, world_bible, story_chapters, latest_choices>>
caches == <<bible_cache, chapter_cache, image_cache, cached_call>>
process == <<STABILITY_API_KEY, ELEVENLABS_API_KEY, active>>

-----------------------------------------------------------------------------
(* Bounds *)

\* the sagas are followed as long as story_chapters has at most this many
\* chapters: a run is left out only when it would make the list longer
MaxChapters == 3

-----------------------------------------------------------------------------
(* Values *)

Sessions == {"A", "B"}

\* Python None where a string or an image is expected
None == "None"

\* a one-word string
Str(w) == <<w>>

Themes == {"Revenge", "Discovery"}
Archetypes == {"The Outcast"}
Contradictions == {"bored city"}
\* the World Bible the language model writes for a theme
BibleFor(theme) == IF theme = "Revenge" THEN Str("w1") ELSE Str("w2")

\* what the user may type as the opening sentence ("" is the empty text area)
Sentences == {Str("s1"), Str("s2"), <<>>}

\* the choices the language model offers in the model
Choices == {Str("a")}

Keys == {"narrative_chapter", "next_choices", "image_prompt"}

\* JSON null where the prompt asks for a text: json.loads gives Python None.
\* As a value of a text field it is kept as a text of its own that is no str.
NoneText == <<None>>

\* the value is a Python str
IsStr(t) == t # None /\ t # NoneText

\* the value json.loads returns: a dict with some keys, or a list
Dict(keys, n, c, p) ==
    [kind |-> "dict", keys |-> keys, narrative_chapter |-> n,
     next_choices |-> c, image_prompt |-> p]

\* a non-empty list such as [1]; keys holds its indices
JsonArray ==
    [kind |-> "list", keys |-> {0}, narrative_chapter |-> <<>>,
     next_choices |-> <<>>, image_prompt |-> <<>>]

\* the empty list []
EmptyArray ==
    [kind |-> "list", keys |-> {}, narrative_chapter |-> <<>>,
     next_choices |-> <<>>, image_prompt |-> <<>>]

\* what generate_story_chapter returns from its except branch
PyNone ==
    [kind |-> "None", keys |-> {}, narrative_chapter |-> <<>>,
     next_choices |-> <<>>, image_prompt |-> <<>>]

\* the JSON documents the language model answers with in the model
Documents ==
    { Dict(Keys, Str("n1"), <<Str("a")>>, Str("p1")),
      Dict(Keys, Str("n2"), <<>>, Str("p2")),
      Dict(Keys, NoneText, <<Str("a")>>, Str("p1")),
      Dict(Keys \ {"narrative_chapter"}, <<>>, <<Str("a")>>, Str("p1")),
      Dict(Keys \ {"next_choices"}, Str("n1"), <<>>, Str("p1")),
      Dict(Keys \ {"image_prompt"}, Str("n1"), <<Str("a")>>, <<>>),
      Dict({}, <<>>, <<>>, <<>>),
      JsonArray,
      EmptyArray }

-----------------------------------------------------------------------------
(* The reply text and its cleaning, generate_story_chapter line 84-85 *)

Ws == [t |-> "ws", d |-> PyNone]
FenceJson == [t |-> "fence_json", d |-> PyNone]
Fence == [t |-> "fence", d |-> PyNone]
Junk == [t |-> "junk", d |-> PyNone]
Doc(d) == [t |-> "doc", d |-> d]

RECURSIVE LStrip(_)
LStrip(s) == IF s # <<>> /\ Head(s) = Ws THEN LStrip(Tail(s)) ELSE s

RECURSIVE RStrip(_)
RStrip(s) ==
    IF s # <<>> /\ s[Len(s)] = Ws THEN RStrip(SubSeq(s, 1, Len(s) - 1)) ELSE s

\* str.strip()
Strip(s) == RStrip(LStrip(s))

\* str.replace(tok, "")
RECURSIVE Remove(_, _)
Remove(s, tok) ==
    IF s = <<>> THEN <<>>
    ELSE IF Head(s) = tok THEN Remove(Tail(s), tok)
    ELSE <<Head(s)>> \o Remove(Tail(s), tok)

\* mutant of Clean: only the fence that opens a json block is removed
CleanJsonFenceOnly(text) == Strip(Remove(Strip(text), FenceJson))

\* response.text.strip().replace(FENCE_JSON, "").replace(FENCE, "").strip()
Clean(text) == Strip(Remove(Remove(Strip(text), FenceJson), Fence))

\* json.loads raises unless the text is one JSON document
JsonLoadsRaises(s) == ~(Len(Strip(s)) = 1 /\ Strip(s)[1].t = "doc")
JsonLoads(s) == Strip(s)[1].d

\* the replies of the language model: bare, fenced and padded, prose
RawReplies ==
    {<<Doc(d)>> : d \in Documents \ {Dict(Keys, Str("n1"), <<Str("a")>>, Str("p1"))}}
    \cup {<<Ws, FenceJson, Ws, Doc(Dict(Keys, Str("n1"), <<Str("a")>>, Str("p1"))),
            Ws, Fence, Ws>>}
    \cup {<<Junk>>}

\* how many whitespace runs and fence markers may stand before, and after, the
\* body of a reply
MaxWrap == 2

\* what the language model may put around the body of its reply
WrapTokens == {Ws, FenceJson, Fence}

Wraps == UNION {[1..n -> WrapTokens] : n \in 0..MaxWrap}

\* bodies of a reply: a complete document, an empty object, prose, and a
\* document followed by prose
Bodies ==
    { <<Doc(Dict(Keys, Str("n1"), <<Str("a")>>, Str("p1")))>>,
      <<Doc(Dict({}, <<>>, <<>>, <<>>))>>,
      <<Junk>>,
      <<Doc(Dict(Keys, Str("n1"), <<Str("a")>>, Str("p1"))), Junk>> }

\* the bodies with every wrapping of at most MaxWrap tokens on either side
WrappedReplies == {pre \o b \o post : pre \in Wraps, b \in Bodies, post \in Wraps}

\* outcome of model.generate_content: it raises, or answers with a text
TextOutcomes(replies) ==
    {[raises |-> TRUE, text |-> <<>>]}
    \cup {[raises |-> FALSE, text |-> r] : r \in replies}

\* outcome of the first generate_content of generate_world_bible
BibleOutcomes(theme) ==
    {[raises |-> TRUE, text |-> <<>>], [raises |-> FALSE, text |-> BibleFor(theme)]}

\* outcome of requests.post and of reading its response, lines 118-122
ImageOutcomes == {"ok", "http_json_body", "http_text_body", "network", "malformed"}

Image == "img"

-----------------------------------------------------------------------------
(* Helpers *)

\* " ".join(texts)
RECURSIVE Join(_)
Join(texts) ==
    IF texts = <<>> THEN <<>>
    ELSE IF Len(texts) = 1 THEN texts[1]
    ELSE texts[1] \o <<" ">> \o Join(Tail(texts))

\* [ch['text'] for ch in chapters]
Texts(chapters) == [i \in 1..Len(chapters) |-> chapters[i].text]

Chapter(text, image) == [text |-> text, image |-> image]

Call(op, arg) == [op |-> op, arg |-> arg]

\* Python truth value of what generate_story_chapter returned
Truthy(v) == v.kind \in {"list", "dict"} /\ v.keys # {}

\* v[key] raises KeyError (a dict without the key) or TypeError (a list)
SubscriptRaises(v, key) == v.kind # "dict" \/ key \notin v.keys

IsPrefix(p, q) == Len(p) <= Len(q) /\ SubSeq(q, 1, Len(p)) = p

-----------------------------------------------------------------------------
(* The memoised generation functions *)

\* @st.cache_data generate_world_bible: every argument is part of the key;
\* an exception of generate_content leaves the function and is not cached
generate_world_bible(theme, archetype, contradiction, svc) ==
    LET key == <<theme, archetype, contradiction>> IN
    IF key \in DOMAIN bible_cache
    THEN [hit |-> TRUE, raised |-> FALSE, value |-> bible_cache[key]]
    ELSE IF svc.raises
    THEN [hit |-> FALSE, raised |-> TRUE, value |-> None]
    ELSE [hit |-> FALSE, raised |-> FALSE, value |-> svc.text]

\* the arguments st.cache_data hashes: a parameter whose name starts with an
\* underscore is left out of the key, so user_choice alone is hashed
ChapterCacheKey(story_context, bible, user_choice) == user_choice

\* @st.cache_data generate_story_chapter. A cached entry is returned without
\* running the body, and its st.error is replayed. On a miss: generate_content
\* raising leaves response unbound, so st.code(response.text) raises out of
\* the except branch; json.loads raising returns None, which is cached.
generate_story_chapter(story_context, bible, user_choice, svc) ==
    LET key == ChapterCacheKey(story_context, bible, user_choice) IN
    IF key \in DOMAIN chapter_cache
    THEN [hit |-> TRUE, raised |-> FALSE, value |-> chapter_cache[key].value,
          error |-> chapter_cache[key].error]
    ELSE IF svc.raises
    THEN [hit |-> FALSE, raised |-> TRUE, value |-> PyNone, error |-> TRUE]
    ELSE IF JsonLoadsRaises(Clean(svc.text))
    THEN [hit |-> FALSE, raised |-> FALSE, value |-> PyNone, error |-> TRUE]
    ELSE [hit |-> FALSE, raised |-> FALSE, value |-> JsonLoads(Clean(svc.text)),
          error |-> FALSE]

\* @st.cache_data generate_image_stability. A cached entry is returned without
\* running the body, and its st.error is replayed. Without the key it returns
\* None and posts nothing. An HTTPError whose body is not JSON makes
\* e.response.json() raise inside the except branch, so it leaves the function.
generate_image_stability(prompt, svc) ==
    IF prompt \in DOMAIN image_cache
    THEN [hit |-> TRUE, raised |-> FALSE, posted |-> FALSE,
          value |-> image_cache[prompt].value,
          error |-> image_cache[prompt].error]
    ELSE IF ~STABILITY_API_KEY
    THEN [hit |-> FALSE, raised |-> FALSE, posted |-> FALSE, value |-> None,
          error |-> FALSE]
    ELSE IF svc = "ok"
    THEN [hit |-> FALSE, raised |-> FALSE, posted |-> TRUE, value |-> Image,
          error |-> FALSE]
    ELSE IF svc = "http_text_body"
    THEN [hit |-> FALSE, raised |-> TRUE, posted |-> TRUE, value |-> None,
          error |-> TRUE]
    ELSE [hit |-> FALSE, raised |-> FALSE, posted |-> TRUE, value |-> None,
          error |-> TRUE]

\* generate_and_play_audio: the requests it makes; it never raises
generate_and_play_audio(text) ==
    IF ELEVENLABS_API_KEY THEN <<Call("synthesizeSpeech", <<text>>)>> ELSE <<>>

\* mutant of Narration: the turn narrates the whole saga
NarrationWholeSaga(old, ai_response) ==
    Join(Append(Texts(old), ai_response.narrative_chapter))

\* the text line 260 hands to generate_and_play_audio after a turn
Narration(old, ai_response) == ai_response.narrative_chapter

\* outcome of client.text_to_speech.convert and of embedding its audio
AudioOutcomes == {"ok", "failed"}

\* how generate_and_play_audio ended: it returns at line 138 without the key,
\* and its try/except (lines 140-191) turns every failure into an st.error
AudioResult(svc) == IF ELEVENLABS_API_KEY THEN svc ELSE "no credential"

\* mutant of AfterAudio: a failure of the narration ends the turn before it
\* commits
AfterAudioAborts(stop, audio) ==
    IF stop = "done" /\ audio = "failed" THEN "generate_and_play_audio" ELSE stop

\* the statement at which a turn ends, the narration included: no outcome of
\* generate_and_play_audio raises, so the turn ends where it ended without it
AfterAudio(stop, audio) == stop

-----------------------------------------------------------------------------
(* One script run *)

\* the record of a script run: who acted, through which form, where the run
\* stopped, what generate_story_chapter returned (and whether from the cache),
\* how the image was obtained, the requests sent to the services, whether
\* st.error was shown and whether an exception left the script; reply is the
\* text generate_content answered with, audio how generate_and_play_audio
\* ended and narrated the text it was given (set by the runs that have them)
Run(s, form, args, stop, hit, ai_response, image, calls, error, raised) ==
    [session |-> s, form |-> form, story_context |-> args[1],
     world_bible |-> args[2], user_choice |-> args[3], stop |-> stop,
     hit |-> hit, ai_response |-> ai_response, image |-> image,
     calls |-> calls, error |-> error, raised |-> raised,
     reply |-> <<>>, audio |-> "not called", narrated |-> <<>>]

\* the text of a fresh reply of the language model, "" when there is none
ReplyText(r, svc) == IF r.hit \/ svc.raises THEN <<>> ELSE svc.text

\* a run that calls neither generate_story_chapter nor generate_image_stability
NoArgs == <<<<>>, None, <<>>>>

\* the statement at which a turn (lines 223-231, 253-257) ends: the call of
\* generate_story_chapter raising, the `if ai_response:` test failing, one of
\* the three subscripts raising, generate_image_stability raising, or the end
Stop(r, i) ==
    IF r.raised THEN "generate_story_chapter"
    ELSE IF ~Truthy(r.value) THEN "if ai_response"
    ELSE IF SubscriptRaises(r.value, "image_prompt") THEN "image_prompt"
    ELSE IF i.raised THEN "generate_image_stability"
    ELSE IF SubscriptRaises(r.value, "narrative_chapter") THEN "narrative_chapter"
    ELSE IF SubscriptRaises(r.value, "next_choices") THEN "next_choices"
    ELSE "done"

\* the stops before generate_image_stability is called
BeforeImage == {"generate_story_chapter", "if ai_response", "image_prompt"}

\* the stops that are an exception leaving the script
Raising == {"generate_story_chapter", "image_prompt", "generate_image_stability",
            "narrative_chapter", "next_choices"}

\* the image that has not been asked for
NoImage ==
    [hit |-> FALSE, raised |-> FALSE, posted |-> FALSE, value |-> None,
     error |-> FALSE]

\* the store of generate_story_chapter after the call with result r: a
\* returned value is stored under its key, an exception stores nothing
StoreChapter(s, story_context, user_choice, r) ==
    LET key == ChapterCacheKey(story_context, world_bible[s], user_choice)
        stored == ~r.hit /\ ~r.raised
    IN  /\ chapter_cache' =
              IF stored
              THEN chapter_cache @@ (key :> [value |-> r.value, error |-> r.error])
              ELSE chapter_cache
        /\ cached_call' =
              IF stored
              THEN cached_call @@ (key :> [session |-> s,
                                            story_context |-> story_context,
                                            world_bible |-> world_bible[s]])
              ELSE cached_call

\* the store of generate_image_stability after the call with result i
StoreImage(prompt, i) ==
    image_cache' =
        IF ~i.hit /\ ~i.raised
        THEN image_cache @@ (prompt :> [value |-> i.value, error |-> i.error])
        ELSE image_cache

\* the requests a turn sends before it commits
TurnCalls(story_context, bible, user_choice, r, i, stop) ==
    (IF r.hit THEN <<>>
     ELSE <<Call("generateTurn", <<user_choice, story_context, bible>>)>>)
    \o (IF stop \notin BeforeImage /\ i.posted
        THEN <<Call("generateImage", <<r.value.image_prompt>>)>>
        ELSE <<>>)

TurnError(r, i, stop) ==
    r.error \/ (stop \notin BeforeImage /\ i.error)

\* how a turn obtained its image: from the store, without the credential,
\* or from the service with the outcome svc
ImageSource(i, svc, stop) ==
    IF stop \in BeforeImage THEN "not called"
    ELSE IF i.hit THEN "cached"
    ELSE IF ~i.posted THEN "no credential"
    ELSE svc

\* mutant of StartChapters: the first turn appends nothing
StartChaptersNotAppended(old, user, ai, stop) == old

\* story_chapters after "Start the Saga": line 227 appends the user's
\* sentence, line 229 the chapter of the reply; a subscript that raises ends
\* the run between the two
StartChapters(old, user, ai, stop) ==
    IF stop \in BeforeImage \cup {"generate_image_stability"} THEN old
    ELSE IF stop = "narrative_chapter" THEN Append(old, user)
    ELSE Append(Append(old, user), ai)

\* mutant of CycleChapters: the new chapter takes the place of the last one
CycleChaptersOverwrite(old, ai, stop) ==
    IF stop \in {"next_choices", "done"}
    THEN Append(SubSeq(old, 1, Len(old) - 1), ai)
    ELSE old

\* story_chapters after "Weave Next Chapter": line 256 appends the chapter
CycleChapters(old, ai, stop) ==
    IF stop \in {"next_choices", "done"} THEN Append(old, ai) ELSE old

\* mutant of NewChoices: a turn that does not reach its end clears the choices
NewChoicesClearedOnFailure(old, ai_response, stop) ==
    IF stop = "done" THEN ai_response.next_choices ELSE <<>>

\* latest_choices after a turn: lines 230 and 257 replace it at the end
NewChoices(old, ai_response, stop) ==
    IF stop = "done" THEN ai_response.next_choices ELSE old

-----------------------------------------------------------------------------
(* The handlers *)

\* line 243: " ".join raises TypeError when a chapter text is no str; every
\* run of the script in story_cycle executes it before it draws a button
PageRaises(stage, chapters) ==
    /\ stage = "story_cycle"
    /\ \E k \in 1..Len(chapters) : ~IsStr(chapters[k].text)

\* lines 264-267: the restart button is the last widget the script draws, so
\* it is on the page of session s exactly when the last run of the script was
\* not ended by an exception: neither the run of the action, nor the run
\* st.rerun starts after it, which executes the branch of the new state
Page(s) ==
    restart_button' = [restart_button EXCEPT ![s] =
        ~run'.raised /\ ~PageRaises(app_stage'[s], story_chapters'[s])]

\* no turn of the session is between its two store accesses
NoTurn ==
    [form |-> "none", story_context |-> <<>>, user_choice |-> <<>>,
     r |-> [hit |-> FALSE, raised |-> FALSE, value |-> PyNone, error |-> FALSE],
     reply |-> <<>>]

Idle(s) == running[s].form = "none"

\* the turn has returned from generate_story_chapter with r and goes on to
\* generate_image_stability: the script of the session is at line 225 or 255
Suspend(s, form, story_context, user_choice, r, reply) ==
    /\ running' = [running EXCEPT ![s] =
          [form |-> form, story_context |-> story_context,
           user_choice |-> user_choice,
           r |-> [hit |-> r.hit, raised |-> r.raised, value |-> r.value,
                  error |-> r.error],
           reply |-> reply]]
    /\ run' = [Run(s, "in flight", <<story_context, world_bible[s], user_choice>>,
                   "generate_image_stability", r.hit, r.value, "not called",
                   <<>>, FALSE, FALSE)
               EXCEPT !.reply = reply]
    /\ UNCHANGED restart_button

Init ==
    /\ app_stage = [s \in Sessions |-> "world_forge"]
    /\ world_bible = [s \in Sessions |-> None]
    /\ story_chapters = [s \in Sessions |-> <<>>]
    /\ latest_choices = [s \in Sessions |-> <<>>]
    /\ bible_cache = <<>>
    /\ chapter_cache = <<>>
    /\ image_cache = <<>>
    /\ cached_call = <<>>
    /\ STABILITY_API_KEY \in BOOLEAN
    /\ ELEVENLABS_API_KEY \in BOOLEAN
    /\ active = {"A"}
    /\ restart_button = [s \in Sessions |-> TRUE]
    /\ running = [s \in Sessions |-> NoTurn]
    /\ run = Run("A", "init", NoArgs, "done", FALSE, PyNone, "not called", <<>>,
                 FALSE, FALSE)

\* mutant of world_forge_form: a failure of the language model is swallowed
\* and the session moves on without a world bible
world_forge_form_ignores_failure(s, theme, archetype, contradiction, svc) ==
    LET r == generate_world_bible(theme, archetype, contradiction, svc)
        key == <<theme, archetype, contradiction>>
        calls == IF r.hit THEN <<>> ELSE <<Call("generateWorldBible", key)>>
    IN  /\ app_stage[s] = "world_forge"
        /\ Idle(s)
        /\ world_bible' = [world_bible EXCEPT ![s] = r.value]
        /\ app_stage' = [app_stage EXCEPT ![s] = "story_start"]
        /\ bible_cache' =
              IF r.hit \/ r.raised THEN bible_cache
              ELSE bible_cache @@ (key :> r.value)
        /\ run' = Run(s, "world_forge_form", NoArgs, "done",
                      r.hit, PyNone, "not called", calls, r.raised, FALSE)
        /\ UNCHANGED <<story_chapters, latest_choices, chapter_cache,
                       image_cache, cached_call, process, running>>
        /\ Page(s)

\* lines 205-214: "Set the Stage"
world_forge_form(s, theme, archetype, contradiction, svc) ==
    LET r == generate_world_bible(theme, archetype, contradiction, svc)
        key == <<theme, archetype, contradiction>>
        calls == IF r.hit THEN <<>> ELSE <<Call("generateWorldBible", key)>>
    IN  /\ app_stage[s] = "world_forge"
        /\ Idle(s)
        /\ IF r.raised
           THEN UNCHANGED <<world_bible, app_stage, bible_cache>>
           ELSE /\ world_bible' = [world_bible EXCEPT ![s] = r.value]
                /\ app_stage' = [app_stage EXCEPT ![s] = "story_start"]
                /\ bible_cache' =
                      IF r.hit THEN bible_cache
                      ELSE bible_cache @@ (key :> r.value)
        /\ run' = Run(s, "world_forge_form", NoArgs,
                      IF r.raised THEN "generate_world_bible" ELSE "done",
                      r.hit, PyNone, "not called", calls, FALSE, r.raised)
        /\ UNCHANGED <<story_chapters, latest_choices, chapter_cache,
                       image_cache, cached_call, process, running>>
        /\ Page(s)

\* lines 216-224: "Start the Saga" up to the return of generate_story_chapter.
\* The run ends here when the sentence is empty, when the call raises, when
\* the reply is falsy or has no image_prompt; otherwise it goes on to the
\* image, and other sessions may run in between
start_story_form(s, initial_prompt, tsvc) ==
    LET bible == world_bible[s]
        r == generate_story_chapter(initial_prompt, bible, initial_prompt, tsvc)
        stop == Stop(r, NoImage)
    IN  /\ app_stage[s] = "story_start"
        /\ Idle(s)
        /\ UNCHANGED <<app_stage, world_bible, latest_choices, bible_cache,
                       image_cache, process>>
        /\ IF initial_prompt = <<>>
           THEN /\ run' = Run(s, "start_story_form", NoArgs, "if initial_prompt",
                              FALSE, PyNone, "not called", <<>>, FALSE, FALSE)
                /\ UNCHANGED <<story_chapters, chapter_cache, cached_call,
                               running>>
                /\ Page(s)
           ELSE /\ StoreChapter(s, initial_prompt, initial_prompt, r)
                /\ IF stop \in BeforeImage
                   THEN /\ run' = [Run(s, "start_story_form",
                                       <<initial_prompt, bible, initial_prompt>>,
                                       stop, r.hit, r.value, "not called",
                                       TurnCalls(initial_prompt, bible,
                                                 initial_prompt, r, NoImage, stop),
                                       TurnError(r, NoImage, stop),
                                       stop \in Raising)
                                   EXCEPT !.reply = ReplyText(r, tsvc)]
                        /\ story_chapters' = [story_chapters EXCEPT ![s] =
                              StartChapters(@, Chapter(initial_prompt, None),
                                            Chapter(r.value.narrative_chapter, None),
                                            stop)]
                        /\ UNCHANGED running
                        /\ Page(s)
                   ELSE /\ UNCHANGED story_chapters
                        /\ Suspend(s, "start_story_form", initial_prompt,
                                   initial_prompt, r, ReplyText(r, tsvc))

\* lines 225-232: "Start the Saga" from the call of generate_image_stability
start_story_form_commit(s, isvc) ==
    LET t == running[s]
        r == t.r
        bible == world_bible[s]
        i == generate_image_stability(r.value.image_prompt, isvc)
        stop == Stop(r, i)
        user == Chapter(t.user_choice, None)
        ai == Chapter(r.value.narrative_chapter, i.value)
        old == story_chapters[s]
    IN  /\ t.form = "start_story_form"
        /\ Len(StartChapters(old, user, ai, stop)) <= MaxChapters
        /\ StoreImage(r.value.image_prompt, i)
        /\ story_chapters' = [story_chapters EXCEPT ![s] =
              StartChapters(old, user, ai, stop)]
        /\ latest_choices' = [latest_choices EXCEPT ![s] =
              NewChoices(@, r.value, stop)]
        /\ app_stage' = [app_stage EXCEPT ![s] =
              IF stop = "done" THEN "story_cycle" ELSE @]
        /\ run' = [Run(s, "start_story_form",
                       <<t.story_context, bible, t.user_choice>>, stop,
                       r.hit, r.value, ImageSource(i, isvc, stop),
                       TurnCalls(t.story_context, bible, t.user_choice, r, i, stop),
                       TurnError(r, i, stop), stop \in Raising)
                   EXCEPT !.reply = t.reply]
        /\ running' = [running EXCEPT ![s] = NoTurn]
        /\ UNCHANGED <<world_bible, bible_cache, chapter_cache, cached_call,
                       process>>
        /\ Page(s)

\* lines 247-254: "Weave Next Chapter" up to the return of
\* generate_story_chapter; the form is on the page when the script has passed
\* line 243 and latest_choices is truthy
choice_form(s, choice_made, tsvc) ==
    LET bible == world_bible[s]
        old == story_chapters[s]
        story_so_far == Join(Texts(old))
        r == generate_story_chapter(story_so_far, bible, choice_made, tsvc)
        stop == Stop(r, NoImage)
    IN  /\ app_stage[s] = "story_cycle"
        /\ Idle(s)
        /\ ~PageRaises(app_stage[s], old)
        /\ latest_choices[s] # <<>>
        /\ \E k \in 1..Len(latest_choices[s]) : choice_made = latest_choices[s][k]
        /\ UNCHANGED <<session_state, bible_cache, image_cache, process>>
        /\ StoreChapter(s, story_so_far, choice_made, r)
        /\ IF stop \in BeforeImage
           THEN /\ run' = [Run(s, "choice_form",
                               <<story_so_far, bible, choice_made>>, stop,
                               r.hit, r.value, "not called",
                               TurnCalls(story_so_far, bible, choice_made, r,
                                         NoImage, stop),
                               TurnError(r, NoImage, stop), stop \in Raising)
                           EXCEPT !.reply = ReplyText(r, tsvc)]
                /\ Page(s)
                /\ UNCHANGED running
           ELSE /\ Suspend(s, "choice_form", story_so_far, choice_made, r,
                           ReplyText(r, tsvc))

\* lines 255-262: "Weave Next Chapter" from the call of
\* generate_image_stability
choice_form_commit(s, isvc, asvc) ==
    LET t == running[s]
        r == t.r
        bible == world_bible[s]
        old == story_chapters[s]
        i == generate_image_stability(r.value.image_prompt, isvc)
        narrates == Stop(r, i) = "done"
        audio == IF narrates THEN AudioResult(asvc) ELSE "not called"
        stop == AfterAudio(Stop(r, i), audio)
        ai == Chapter(r.value.narrative_chapter, i.value)
    IN  /\ t.form = "choice_form"
        /\ Len(CycleChapters(old, ai, stop)) <= MaxChapters
        /\ StoreImage(r.value.image_prompt, i)
        /\ story_chapters' = [story_chapters EXCEPT ![s] =
              CycleChapters(old, ai, stop)]
        /\ latest_choices' = [latest_choices EXCEPT ![s] =
              NewChoices(@, r.value, stop)]
        /\ run' = [Run(s, "choice_form",
                       <<t.story_context, bible, t.user_choice>>, stop,
                       r.hit, r.value, ImageSource(i, isvc, stop),
                       TurnCalls(t.story_context, bible, t.user_choice, r, i, stop)
                       \o (IF narrates
                           THEN generate_and_play_audio(Narration(old, r.value))
                           ELSE <<>>),
                       TurnError(r, i, stop) \/ audio = "failed",
                       stop \in Raising)
                   EXCEPT !.reply = t.reply,
                          !.audio = audio,
                          !.narrated = IF narrates
                                       THEN Narration(old, r.value) ELSE <<>>]
        /\ running' = [running EXCEPT ![s] = NoTurn]
        /\ UNCHANGED <<app_stage, world_bible, bible_cache, chapter_cache,
                       cached_call, process>>
        /\ Page(s)

\* lines 242-245: "Narrate Full Saga"
narrate_full_saga(s, asvc) ==
    /\ app_stage[s] = "story_cycle"
    /\ Idle(s)
    /\ story_chapters[s] # <<>>
    /\ ~PageRaises(app_stage[s], story_chapters[s])
    /\ run' = [Run(s, "narrate_full_saga", NoArgs, "done", FALSE, PyNone,
                   "not called",
                   generate_and_play_audio(Join(Texts(story_chapters[s]))),
                   AudioResult(asvc) = "failed", FALSE)
               EXCEPT !.audio = AudioResult(asvc),
                      !.narrated = Join(Texts(story_chapters[s]))]
    /\ UNCHANGED <<session_state, caches, process, running>>
    /\ Page(s)

\* lines 264-271 and, on the rerun, 199-203: the button can be clicked when
\* it is on the page; every key of the session is deleted and the session is
\* initialised again; the st.cache_data stores belong to the process and stay
restart(s) ==
    /\ restart_button[s]
    /\ Idle(s)
    /\ app_stage' = [app_stage EXCEPT ![s] = "world_forge"]
    /\ world_bible' = [world_bible EXCEPT ![s] = None]
    /\ story_chapters' = [story_chapters EXCEPT ![s] = <<>>]
    /\ latest_choices' = [latest_choices EXCEPT ![s] = <<>>]
    /\ run' = Run(s, "restart", NoArgs, "done", FALSE, PyNone, "not called",
                  <<>>, FALSE, FALSE)
    /\ UNCHANGED <<caches, process, running>>
    /\ Page(s)

\* the service outcomes a run can observe: none when the entry is cached
TextOutcomesFor(user_choice, replies) ==
    IF user_choice \in DOMAIN chapter_cache \/ user_choice = <<>>
    THEN {[raises |-> TRUE, text |-> <<>>]}
    ELSE TextOutcomes(replies)

ImageOutcomesFor(s) ==
    IF \/ running[s].r.value.image_prompt \in DOMAIN image_cache
       \/ ~STABILITY_API_KEY
    THEN {"ok"}
    ELSE ImageOutcomes

AudioOutcomesFor == IF ELEVENLABS_API_KEY THEN AudioOutcomes ELSE {"ok"}

\* the user actions of the sessions, the language model answering from replies
SetTheStage(themes) ==
    \E s \in active, t \in themes, a \in Archetypes, c \in Contradictions :
        \E svc \in BibleOutcomes(t) : world_forge_form(s, t, a, c, svc)

StartTheSaga(sentences, replies) ==
    \E s \in active, p \in sentences :
        \E tsvc \in TextOutcomesFor(p, replies) :
            start_story_form(s, p, tsvc)

StartTheSagaCommit ==
    \E s \in active :
        \E isvc \in ImageOutcomesFor(s) : start_story_form_commit(s, isvc)

WeaveNextChapter(replies) ==
    \E s \in active, c \in Choices :
        \E tsvc \in TextOutcomesFor(c, replies) :
            choice_form(s, c, tsvc)

WeaveNextChapterCommit ==
    \E s \in active :
        \E isvc \in ImageOutcomesFor(s), asvc \in AudioOutcomesFor :
            choice_form_commit(s, isvc, asvc)

NarrateFullSaga ==
    \E s \in active, asvc \in AudioOutcomesFor : narrate_full_saga(s, asvc)

Restart == \E s \in active : restart(s)

Next ==
    \/ SetTheStage({"Revenge"})
    \/ StartTheSaga(Sentences, RawReplies)
    \/ StartTheSagaCommit
    \/ WeaveNextChapter(RawReplies)
    \/ WeaveNextChapterCommit
    \/ NarrateFullSaga
    \/ Restart

\* one session served by the process, every saga forged from the same theme
Spec == Init /\ [][Next]_vars

\* two sessions served by one process that has no image credential; the
\* language model answers with a complete document, fenced, or with prose
InitSessions ==
    /\ app_stage = [s \in Sessions |-> "world_forge"]
    /\ world_bible = [s \in Sessions |-> None]
    /\ story_chapters = [s \in Sessions |-> <<>>]
    /\ latest_choices = [s \in Sessions |-> <<>>]
    /\ bible_cache = <<>>
    /\ chapter_cache = <<>>
    /\ image_cache = <<>>
    /\ cached_call = <<>>
    /\ STABILITY_API_KEY = FALSE
    /\ ELEVENLABS_API_KEY \in BOOLEAN
    /\ active = Sessions
    /\ restart_button = [s \in Sessions |-> TRUE]
    /\ running = [s \in Sessions |-> NoTurn]
    /\ run = Run("A", "init", NoArgs, "done", FALSE, PyNone, "not called", <<>>,
                 FALSE, FALSE)

SessionReplies ==
    {<<Ws, FenceJson, Ws, Doc(Dict(Keys, Str("n1"), <<Str("a")>>, Str("p1"))),
       Ws, Fence, Ws>>,
     <<Junk>>}

NextSessions ==
    \/ SetTheStage(Themes)
    \/ StartTheSaga({Str("s1")}, SessionReplies)
    \/ StartTheSagaCommit
    \/ WeaveNextChapter(SessionReplies)
    \/ WeaveNextChapterCommit
    \/ NarrateFullSaga
    \/ Restart

SpecSessions == InitSessions /\ [][NextSessions]_vars

\* one session whose language model wraps the reply to the opening sentence
\* in whitespace and fences
InitParse ==
    /\ app_stage = [s \in Sessions |-> "world_forge"]
    /\ world_bible = [s \in Sessions |-> None]
    /\ story_chapters = [s \in Sessions |-> <<>>]
    /\ latest_choices = [s \in Sessions |-> <<>>]
    /\ bible_cache = <<>>
    /\ chapter_cache = <<>>
    /\ image_cache = <<>>
    /\ cached_call = <<>>
    /\ STABILITY_API_KEY = FALSE
    /\ ELEVENLABS_API_KEY = FALSE
    /\ active = {"A"}
    /\ restart_button = [s \in Sessions |-> TRUE]
    /\ running = [s \in Sessions |-> NoTurn]
    /\ run = Run("A", "init", NoArgs, "done", FALSE, PyNone, "not called", <<>>,
                 FALSE, FALSE)

NextParse ==
    \/ SetTheStage({"Revenge"})
    \/ StartTheSaga({Str("s1")}, WrappedReplies)
    \/ StartTheSagaCommit
    \/ WeaveNextChapter(SessionReplies)
    \/ WeaveNextChapterCommit
    \/ NarrateFullSaga
    \/ Restart

SpecParse == InitParse /\ [][NextParse]_vars

-----------------------------------------------------------------------------
(* Vocabulary of the claims *)

TurnForms == {"start_story_form", "choice_form"}

\* the run was a submitted turn: the form was submitted with a non-empty input
IsTurn(rn) == rn.form \in TurnForms /\ rn.stop # "if initial_prompt"

\* text generation failed (generate_content raised) or parsing failed
\* (json.loads raised, now or when the replayed entry was stored)
TurnFailed(rn) ==
    /\ IsTurn(rn)
    /\ \/ rn.stop = "generate_story_chapter"
       \/ rn.stop = "if ai_response" /\ rn.ai_response = PyNone

\* the reply parsed as JSON but is not an object with the three fields
Incomplete(rn) ==
    /\ IsTurn(rn)
    /\ rn.stop # "generate_story_chapter"
    /\ rn.ai_response # PyNone
    /\ (rn.ai_response.kind # "dict" \/ rn.ai_response.keys # Keys)

\* text generation and parsing succeeded: an object with the three fields
Parsed(rn) ==
    /\ IsTurn(rn)
    /\ rn.stop # "generate_story_chapter"
    /\ rn.ai_response.kind = "dict"
    /\ rn.ai_response.keys = Keys

Requested(rn, op) == \E k \in 1..Len(rn.calls) : rn.calls[k].op = op

\* the chapters a successful turn is to append
NewChapters(rn, image) ==
    (IF rn.form = "start_story_form"
     THEN <<Chapter(rn.user_choice, None)>> ELSE <<>>)
    \o <<Chapter(rn.ai_response.narrative_chapter, image)>>

-----------------------------------------------------------------------------
(* C1 *)

\* C1: a turn whose text generation fails or whose reply fails to parse (it
\* is no JSON, or no object with the three fields) leaves Transcript,
\* PendingChoices and Stage (and WorldBible) of every session as they were
\* before the turn.
C1_TurnAtomicOnFailure ==
    [][IsTurn(run') /\ ~Parsed(run') => UNCHANGED session_state]_vars

-----------------------------------------------------------------------------
(* C2 *)

\* C2: a reply that is well-formed JSON but lacks one of narrative_chapter,
\* next_choices, image_prompt, or is no object, aborts the turn: nothing is
\* appended to Transcript, PendingChoices and Stage stay, and neither an image
\* nor a speech request is made.
C2_IncompleteReplyAborts ==
    [][Incomplete(run') =>
          /\ UNCHANGED session_state
          /\ ~Requested(run', "generateImage")
          /\ ~Requested(run', "synthesizeSpeech")]_vars

-----------------------------------------------------------------------------
(* C3 *)

ImageFailures == {"no credential", "http_json_body", "http_text_body",
                  "network", "malformed"}

\* C3: a turn whose text generation and parsing succeed and whose image is
\* unconfigured or fails in any way commits exactly one new AI Chapter with
\* image = null and replaces PendingChoices with the reply's next_choices.
C3_ImageDegrades ==
    [][Parsed(run') /\ run'.image \in ImageFailures =>
          /\ story_chapters'[run'.session] =
                story_chapters[run'.session] \o NewChapters(run', None)
          /\ latest_choices'[run'.session] = run'.ai_response.next_choices]_vars

-----------------------------------------------------------------------------
(* C4 *)

\* C4: every action other than restart leaves the previous Transcript as a
\* prefix of the new one, and a turn that runs to its end appends exactly its
\* chapters at the end, in call order.
C4_TranscriptAppendOnly ==
    [][run'.form # "restart" =>
          /\ \A s \in Sessions : IsPrefix(story_chapters[s], story_chapters'[s])
          /\ IsTurn(run') /\ run'.stop = "done" =>
                \E img \in {None, Image} :
                    story_chapters'[run'.session] =
                        story_chapters[run'.session] \o NewChapters(run', img)]_vars

\* three chapters in call order: the opening sentence and two different
\* chapters of the language model
C4_Witness ==
    /\ run.form = "choice_form"
    /\ run.stop = "done"
    /\ Len(story_chapters[run.session]) = 3
    /\ story_chapters[run.session][2].text # story_chapters[run.session][3].text

-----------------------------------------------------------------------------
(* C5 *)

\* C5: restart is available in every reachable state, and after it Stage is
\* WorldForge, Transcript and PendingChoices are empty and WorldBible is unset.
C5_RestartClearsAll ==
    /\ [](\A s \in active : ENABLED restart(s))
    /\ [][run'.form = "restart" =>
             /\ app_stage'[run'.session] = "world_forge"
             /\ story_chapters'[run'.session] = <<>>
             /\ latest_choices'[run'.session] = <<>>
             /\ world_bible'[run'.session] = None]_vars

-----------------------------------------------------------------------------
(* C6 *)

\* C6: an opening sentence submitted in StoryStart whose text generation and
\* parsing succeed gives Stage = StoryCycle, Transcript = [user Chapter, AI
\* Chapter] and nothing else, PendingChoices = the reply's next_choices; and
\* Stage becomes StoryCycle by no other path.
C6_FirstTurn ==
    [][/\ run'.form = "start_story_form" /\ Parsed(run') /\ run'.stop = "done" =>
            /\ app_stage'[run'.session] = "story_cycle"
            /\ \E img \in {None, Image} :
                  story_chapters'[run'.session] = NewChapters(run', img)
            /\ latest_choices'[run'.session] = run'.ai_response.next_choices
       /\ \A s \in Sessions :
            app_stage[s] # "story_cycle" /\ app_stage'[s] = "story_cycle" =>
                run'.session = s /\ run'.form = "start_story_form" /\ Parsed(run')
      ]_vars

-----------------------------------------------------------------------------
(* C7 *)

\* C7 as stated: in every reachable state with Stage = StoryCycle,
\* PendingChoices is non-empty.
C7_ChoicesNeverEmpty ==
    \A s \in active : app_stage[s] = "story_cycle" => latest_choices[s] # <<>>

\* C7 as amended: PendingChoices is the next_choices of the last turn that ran
\* to its end (only such a turn and restart change it); in StoryCycle it is
\* empty only from a reply whose next_choices is the empty list, never from
\* a failed turn, and it then stays empty until restart, since a choice is
\* submitted only from a non-empty PendingChoices.
C7_EmptyOnlyFromEmptyReply ==
    [][/\ IsTurn(run') /\ run'.stop = "done" =>
            latest_choices'[run'.session] = run'.ai_response.next_choices
       /\ \A s \in Sessions :
            latest_choices'[s] # latest_choices[s] =>
                /\ run'.session = s
                /\ run'.form = "restart" \/ (IsTurn(run') /\ run'.stop = "done")
       /\ \A s \in Sessions :
            app_stage'[s] = "story_cycle" /\ latest_choices'[s] = <<>> =>
                \/ app_stage[s] = "story_cycle" /\ latest_choices[s] = <<>>
                \/ /\ run'.session = s
                   /\ IsTurn(run')
                   /\ run'.stop = "done"
                   /\ run'.ai_response.next_choices = <<>>
       /\ run'.form = "choice_form" => latest_choices[run'.session] # <<>>
      ]_vars

\* StoryCycle with no choice to submit, after a turn that committed a chapter
C7_Witness ==
    /\ app_stage[run.session] = "story_cycle"
    /\ latest_choices[run.session] = <<>>
    /\ run.form = "choice_form"
    /\ run.stop = "done"

-----------------------------------------------------------------------------
(* C8 *)

\* the number of generateTurn requests of a run
RECURSIVE CountCalls(_, _)
CountCalls(calls, op) ==
    IF calls = <<>> THEN 0
    ELSE (IF Head(calls).op = op THEN 1 ELSE 0) + CountCalls(Tail(calls), op)

\* C8: a turn sends at most one generateTurn request (no automatic retry),
\* and when a turn has failed, the same input submitted again by the same
\* session sends a fresh generateTurn request: the failure is not replayed.
C8_ResubmitRetries ==
    [][/\ CountCalls(run'.calls, "generateTurn") <= 1
       /\ (/\ TurnFailed(run)
           /\ IsTurn(run')
           /\ run'.session = run.session
           /\ run'.form = run.form
           /\ run'.user_choice = run.user_choice)
          => Requested(run', "generateTurn")
      ]_vars

-----------------------------------------------------------------------------
(* C9 *)

\* C9: a memoized generate_story_chapter result is reused only for a call whose
\* story context, world bible and user choice all equal those of the call
\* that produced it.
C9_CacheKeyedByWholeTuple ==
    IsTurn(run) /\ run.hit =>
        /\ cached_call[run.user_choice].story_context = run.story_context
        /\ cached_call[run.user_choice].world_bible = run.world_bible

-----------------------------------------------------------------------------
(* C10 *)

\* C10: no action of one session changes what the other session observes:
\* the other session's Stage, WorldBible, Transcript and PendingChoices stay,
\* and a turn never gets a reply that a call of the other session stored.
C10_SessionIsolation ==
    [][/\ \A t \in Sessions \ {run'.session} :
            /\ app_stage'[t] = app_stage[t]
            /\ world_bible'[t] = world_bible[t]
            /\ story_chapters'[t] = story_chapters[t]
            /\ latest_choices'[t] = latest_choices[t]
       /\ IsTurn(run') /\ run'.hit =>
            cached_call[run'.user_choice].session = run'.session
      ]_vars

-----------------------------------------------------------------------------
(* C11 *)

\* the statements at which a failure of a service leaves its operation as an
\* exception
TransportStops == {"generate_world_bible", "generate_story_chapter",
                   "generate_image_stability"}

\* C11: a network, HTTP or service failure inside generateWorldBible,
\* generateTurn, generateImage or synthesizeSpeech becomes an error outcome
\* of the operation; no run is ended by an exception leaving one of them.
C11_NoTransportFailureEscapes ==
    [][~(run'.raised /\ run'.stop \in TransportStops)]_vars

-----------------------------------------------------------------------------
(* C12 *)

\* C12: every submitted turn that commits no chapter shows an error to the
\* user: no reply makes a turn end with the Transcript as it was and with
\* neither st.error nor an exception on the page.
C12_NoSilentDrop ==
    [][IsTurn(run')
       /\ story_chapters'[run'.session] = story_chapters[run'.session]
          => run'.error \/ run'.raised]_vars

-----------------------------------------------------------------------------
(* C13 *)

\* two values of world_bible are the same (None or the same text)
SameBible(x, y) == IF x = None THEN y = None ELSE x = y

\* C13: WorldBible changes only from unset to set in the world-forge
\* submission that moves Stage from WorldForge to StoryStart, and from set to
\* unset in restart; it is set whenever Stage is StoryStart or StoryCycle.
C13_WorldBibleSetOncePerSaga ==
    /\ [](\A s \in Sessions :
             app_stage[s] \in {"story_start", "story_cycle"}
                => world_bible[s] # None)
    /\ [][\A s \in Sessions :
             ~SameBible(world_bible[s], world_bible'[s]) =>
                \/ /\ run'.form = "world_forge_form"
                   /\ run'.session = s
                   /\ world_bible[s] = None
                   /\ world_bible'[s] # None
                   /\ app_stage[s] = "world_forge"
                   /\ app_stage'[s] = "story_start"
                \/ /\ run'.form = "restart"
                   /\ run'.session = s
                   /\ world_bible'[s] = None]_vars

\* the second saga of a session: its world bible was set again after a
\* restart, answered by the cache
C13_Witness ==
    /\ run.form = "world_forge_form"
    /\ run.hit
    /\ app_stage[run.session] = "story_start"
    /\ world_bible[run.session] # None
    /\ \E s \in active \ {run.session} :
           /\ world_bible[s] # None
           /\ world_bible[s] # world_bible[run.session]

-----------------------------------------------------------------------------
(* C14 *)

\* C14: whenever Stage is StoryCycle the Transcript is non-empty.
C14_CycleHasChapters ==
    \A s \in Sessions :
        app_stage[s] = "story_cycle" => story_chapters[s] # <<>>

\* the first turn has just moved the session to story_cycle
C14_Witness ==
    /\ run.form = "start_story_form"
    /\ run.stop = "done"
    /\ app_stage[run.session] = "story_cycle"
    /\ Len(story_chapters[run.session]) = 2

-----------------------------------------------------------------------------
(* C15 *)

RECURSIVE UnwrapLeft(_)
UnwrapLeft(text) ==
    IF text # <<>> /\ Head(text) \in WrapTokens
    THEN UnwrapLeft(Tail(text)) ELSE text

RECURSIVE UnwrapRight(_)
UnwrapRight(text) ==
    IF text # <<>> /\ text[Len(text)] \in WrapTokens
    THEN UnwrapRight(SubSeq(text, 1, Len(text) - 1)) ELSE text

\* the reply without the whitespace and the fence markers around it
Unwrap(text) == UnwrapRight(UnwrapLeft(text))

\* C15: a reply wrapped in any number of whitespace runs and code-fence
\* markers, before and after, parses exactly when the reply without them
\* parses, and to the same value.
C15_WrappingTolerated ==
    [][IsTurn(run') /\ run'.reply # <<>> =>
          LET bare == Clean(Unwrap(run'.reply)) IN
          IF JsonLoadsRaises(bare)
          THEN run'.ai_response = PyNone /\ run'.stop = "if ai_response"
          ELSE run'.ai_response = JsonLoads(bare)]_vars

\* a complete document was read out of a reply with whitespace and both
\* kinds of fence around it
C15_Witness ==
    /\ Parsed(run)
    /\ Len(run.reply) = 1 + 2 * MaxWrap
    /\ Unwrap(run.reply) # run.reply
    /\ \E j, k, l \in 1..Len(run.reply) :
          run.reply[j] = Ws /\ run.reply[k] = FenceJson /\ run.reply[l] = Fence

-----------------------------------------------------------------------------
(* C16 *)

\* the place of a request in a turn
Rank(op) == CASE op = "generateTurn" -> 1
              [] op = "generateImage" -> 2
              [] op = "synthesizeSpeech" -> 3
              [] OTHER -> 0

\* C16: the requests of a turn are made in the order text, image, speech, at
\* most one of each; an image is requested only after text generation and
\* parsing succeeded (the reply is an object with the three fields) and for
\* the reply's image_prompt; a chapter is committed only after the image
\* step returned; speech is requested only in a story_cycle turn and only
\* after its chapter was appended and the choices were replaced.
C16_StepOrder ==
    [][IsTurn(run') =>
          LET c == run'.calls
              s == run'.session
          IN  /\ \A j, k \in 1..Len(c) : j < k => Rank(c[j].op) < Rank(c[k].op)
              /\ \A k \in 1..Len(c) :
                    c[k].op = "generateImage" =>
                        /\ Parsed(run')
                        /\ c[k].arg = <<run'.ai_response.image_prompt>>
              /\ story_chapters'[s] # story_chapters[s] =>
                    run'.stop \notin BeforeImage \cup {"generate_image_stability"}
              /\ \A k \in 1..Len(c) :
                    c[k].op = "synthesizeSpeech" =>
                        /\ run'.form = "choice_form"
                        /\ Len(story_chapters'[s]) = Len(story_chapters[s]) + 1
                        /\ c[k].arg =
                              <<story_chapters'[s][Len(story_chapters'[s])].text>>
                        /\ latest_choices'[s] = run'.ai_response.next_choices]_vars

-----------------------------------------------------------------------------
(* C17 *)

\* the speech requests of a run
SpeechCalls(rn) == SelectSeq(rn.calls, LAMBDA c : c.op = "synthesizeSpeech")

\* the requests generate_and_play_audio makes for a text: one with the
\* credential, none without
SpeechFor(text) ==
    IF ELEVENLABS_API_KEY THEN <<Call("synthesizeSpeech", <<text>>)>> ELSE <<>>

\* C17: a story_cycle turn that runs to its end narrates exactly the text of
\* the chapter it has just appended; the first turn and every turn that does
\* not run to its end narrate nothing; "Narrate Full Saga" narrates the texts
\* of all chapters of the Transcript, in order, joined by single spaces; no
\* other action narrates.
C17_NarrationTriggers ==
    [][LET s == run'.session
           new == story_chapters'[s]
       IN  IF run'.form = "choice_form" /\ run'.stop = "done"
           THEN /\ run'.audio # "not called"
                /\ Len(new) = Len(story_chapters[s]) + 1
                /\ run'.narrated = new[Len(new)].text
                /\ SpeechCalls(run') = SpeechFor(new[Len(new)].text)
           ELSE IF run'.form = "narrate_full_saga"
           THEN /\ run'.audio # "not called"
                /\ run'.narrated = Join(Texts(story_chapters[s]))
                /\ SpeechCalls(run') = SpeechFor(Join(Texts(story_chapters[s])))
           ELSE /\ run'.audio = "not called"
                /\ SpeechCalls(run') = <<>>]_vars

\* the second chapter of the language model was narrated alone, with three
\* chapters before it in the Transcript
C17_Witness ==
    /\ run.form = "choice_form"
    /\ run.audio = "ok"
    /\ Len(story_chapters[run.session]) = 3
    /\ SpeechCalls(run) # <<>>
    /\ run.narrated # Join(Texts(story_chapters[run.session]))

-----------------------------------------------------------------------------
(* C18 *)

\* C18: whether speech synthesis succeeds, fails or has no credential, the
\* narration raises nothing and changes no session state: "Narrate Full Saga"
\* leaves Stage, WorldBible, Transcript and PendingChoices as they were, and
\* the turn that narrated its chapter stays committed.
C18_SpeechLeavesState ==
    [][run'.audio # "not called" =>
          LET s == run'.session IN
          /\ ~run'.raised
          /\ UNCHANGED <<app_stage, world_bible>>
          /\ \A o \in Sessions \ {s} :
                /\ story_chapters'[o] = story_chapters[o]
                /\ latest_choices'[o] = latest_choices[o]
          /\ IF run'.form = "narrate_full_saga"
             THEN UNCHANGED <<story_chapters, latest_choices>>
             ELSE /\ run'.form = "choice_form"
                  /\ \E img \in {None, Image} :
                        story_chapters'[s] =
                            story_chapters[s] \o NewChapters(run', img)
                  /\ latest_choices'[s] = run'.ai_response.next_choices]_vars

\* speech synthesis failed after a turn and the turn's chapter is in the
\* Transcript
C18_Witness ==
    /\ run.form = "choice_form"
    /\ run.audio = "failed"
    /\ run.error
    /\ Len(story_chapters[run.session]) >= 3
    /\ story_chapters[run.session][Len(story_chapters[run.session])].text =
          run.ai_response.narrative_chapter

-----------------------------------------------------------------------------
(* C19 *)

\* C19: while Stage is WorldForge or StoryStart, Transcript and
\* PendingChoices are empty.
C19_EmptyBeforeCycle ==
    \A s \in Sessions :
        app_stage[s] \in {"world_forge", "story_start"} =>
            story_chapters[s] = <<>> /\ latest_choices[s] = <<>>

=============================================================================
